---------------------------- MODULE Spec2Model ----------------------------
(***************************************************************************)
(* imagecrop: the brightness-uniformity cropping engine                    *)
(* (src/cropper/cropper.go) and the concurrent batch driver (src/main.go). *)
(*                                                                         *)
(* The engine computes in float64.  Its arithmetic is modelled bit-exactly *)
(* for the values that occur (non-negative, no overflow, no subnormals):   *)
(* a float64 is m * 2^e with m an odd natural below 2^53, and every        *)
(* operation rounds its exact result to nearest, ties to even.  Naturals   *)
(* wider than the checker's integers are sequences of 15-bit limbs.  The   *)
(* operations are evaluated in the order the amd64 build evaluates them    *)
(* (no fused multiply-add).                                                *)
(***************************************************************************)
EXTENDS Integers, Sequences, FiniteSets, TLC

Max(a, b) == IF a >= b THEN a ELSE b
Min(a, b) == IF a <= b THEN a ELSE b

(***************************************************************************)
(* Naturals of any width: little-endian sequences of limbs below 2^15,     *)
(* without leading zero limbs; << >> is zero.                              *)
(***************************************************************************)
LimbBase == 32768

LimbBits == 15

\* 2^k for 0 <= k <= 30
Pow2(k) ==
    <<1, 2, 4, 8, 16, 32, 64, 128, 256, 512, 1024, 2048, 4096, 8192, 16384,
      32768, 65536, 131072, 262144, 524288, 1048576, 2097152, 4194304,
      8388608, 16777216, 33554432, 67108864, 134217728, 268435456,
      536870912, 1073741824>>[k + 1]

RECURSIVE BNorm(_)
BNorm(a) ==
    IF a = << >> THEN << >>
    ELSE IF a[Len(a)] = 0 THEN BNorm(SubSeq(a, 1, Len(a) - 1))
    ELSE a

RECURSIVE BFromInt(_)
BFromInt(n) ==
    IF n = 0 THEN << >>
    ELSE <<n % LimbBase>> \o BFromInt(n \div LimbBase)

RECURSIVE BToInt(_)
BToInt(a) ==
    IF a = << >> THEN 0
    ELSE a[1] + LimbBase * BToInt(Tail(a))

Limb(a, i) == IF i <= Len(a) THEN a[i] ELSE 0

RECURSIVE BCmpFrom(_, _, _)
BCmpFrom(a, b, i) ==
    IF i = 0 THEN 0
    ELSE IF a[i] < b[i] THEN -1
    ELSE IF a[i] > b[i] THEN 1
    ELSE BCmpFrom(a, b, i - 1)

BCmp(a, b) ==
    IF Len(a) < Len(b) THEN -1
    ELSE IF Len(a) > Len(b) THEN 1
    ELSE BCmpFrom(a, b, Len(a))

RECURSIVE BAddFrom(_, _, _, _)
BAddFrom(a, b, i, carry) ==
    IF i > Len(a) /\ i > Len(b)
    THEN IF carry = 0 THEN << >> ELSE <<carry>>
    ELSE LET s == Limb(a, i) + Limb(b, i) + carry
         IN  <<s % LimbBase>> \o BAddFrom(a, b, i + 1, s \div LimbBase)

BAdd(a, b) == BAddFrom(a, b, 1, 0)

RECURSIVE BSubFrom(_, _, _, _)
BSubFrom(a, b, i, borrow) ==
    IF i > Len(a) THEN << >>
    ELSE LET d == a[i] - Limb(b, i) - borrow
         IN  IF d < 0
             THEN <<d + LimbBase>> \o BSubFrom(a, b, i + 1, 1)
             ELSE <<d>> \o BSubFrom(a, b, i + 1, 0)

\* a - b for a >= b
BSub(a, b) == BNorm(BSubFrom(a, b, 1, 0))

RECURSIVE BMulSmallFrom(_, _, _, _)
BMulSmallFrom(a, k, i, carry) ==
    IF i > Len(a)
    THEN IF carry = 0 THEN << >> ELSE <<carry>>
    ELSE LET p == a[i] * k + carry
         IN  <<p % LimbBase>> \o BMulSmallFrom(a, k, i + 1, p \div LimbBase)

\* a * k for 0 <= k < 2^15
BMulSmall(a, k) == IF k = 0 THEN << >> ELSE BMulSmallFrom(a, k, 1, 0)

RECURSIVE BMul(_, _)
BMul(a, b) ==
    IF b = << >> \/ a = << >> THEN << >>
    ELSE BAdd(BMulSmall(a, b[1]), BNorm(<<0>> \o BMul(a, Tail(b))))

RECURSIVE ZeroLimbs(_)
ZeroLimbs(n) == IF n = 0 THEN << >> ELSE <<0>> \o ZeroLimbs(n - 1)

\* a * 2^k
BShl(a, k) ==
    IF a = << >> THEN << >>
    ELSE ZeroLimbs(k \div LimbBits) \o BMulSmall(a, Pow2(k % LimbBits))

RECURSIVE BDivSmallFrom(_, _, _, _)
BDivSmallFrom(a, d, i, rem) ==
    IF i = 0 THEN [q |-> << >>, r |-> rem]
    ELSE LET cur  == rem * LimbBase + a[i]
             rest == BDivSmallFrom(a, d, i - 1, cur % d)
         IN  [q |-> rest.q \o <<cur \div d>>, r |-> rest.r]

\* quotient and remainder of a by d, 0 < d <= 2^15
BDivSmall(a, d) ==
    LET x == BDivSmallFrom(a, d, Len(a), 0)
    IN  [q |-> BNorm(x.q), r |-> x.r]

\* floor(a / 2^k)
BShr(a, k) ==
    IF k \div LimbBits >= Len(a) THEN << >>
    ELSE BDivSmall(SubSeq(a, k \div LimbBits + 1, Len(a)), Pow2(k % LimbBits)).q

\* the number of bits of a
BBitLen(a) ==
    IF a = << >> THEN 0
    ELSE LET n == a[Len(a)]
         IN  LimbBits * (Len(a) - 1)
               + CHOOSE k \in 0..30 : Pow2(k) > n /\ (k = 0 \/ Pow2(k - 1) <= n)

\* one step of restoring division: the next quotient bit, d halves
BDivStep(st) ==
    IF BCmp(st.r, st.d) >= 0
    THEN [q |-> BAdd(BMulSmall(st.q, 2), <<1>>), r |-> BSub(st.r, st.d),
          d |-> BShr(st.d, 1)]
    ELSE [q |-> BMulSmall(st.q, 2), r |-> st.r, d |-> BShr(st.d, 1)]

\* n steps of BDivStep, one after the other (the first half is evaluated
\* before the second starts)
RECURSIVE BDivSteps(_, _)
BDivSteps(st, n) ==
    IF n = 0 THEN st
    ELSE IF n = 1 THEN BDivStep(st)
    ELSE LET half == BDivSteps(st, n \div 2)
         IN  IF half.q = half.q THEN BDivSteps(half, n - n \div 2) ELSE half

BDivModLong(a, b) ==
    IF BCmp(a, b) < 0 THEN [q |-> << >>, r |-> a]
    ELSE LET s  == BBitLen(a) - BBitLen(b)
             st == BDivSteps([q |-> << >>, r |-> a, d |-> BShl(b, s)], s + 1)
         IN  [q |-> st.q, r |-> st.r]

\* quotient and remainder of a by b > 0
BDivMod(a, b) ==
    IF Len(b) = 1
    THEN LET x == BDivSmall(a, b[1]) IN [q |-> x.q, r |-> BFromInt(x.r)]
    ELSE BDivModLong(a, b)

\* the number of trailing zero bits of a > 0: z zero limbs, then those of
\* the first limb that is not zero
BTrailingZeros(a) ==
    LET z == CHOOSE z \in 0..(Len(a) - 1) : a[z + 1] # 0 /\ \A i \in 1..z : a[i] = 0
        n == a[z + 1]
    IN  LimbBits * z
          + CHOOSE k \in 0..LimbBits : n % Pow2(k) = 0 /\ n % Pow2(k + 1) # 0

(***************************************************************************)
(* float64.  A value is zero, +Inf, NaN, or m * 2^e with m odd.            *)
(***************************************************************************)
MantissaBits == 53

FZero == [k |-> "zero"]
FInf == [k |-> "inf"]
FNaN == [k |-> "nan"]

\* m * 2^e, m > 0 of at most 53 bits, made canonical (m odd)
FCanon(m, e) ==
    LET z == BTrailingZeros(m)
    IN  [k |-> "fin", m |-> BShr(m, z), e |-> e + z]

\* round-to-nearest-even of (m + f) * 2^e, where 0 <= f < 1 and sticky says f > 0
FRound(m, e, sticky) ==
    IF m = << >> THEN FZero
    ELSE LET len == BBitLen(m) IN
         IF len <= MantissaBits THEN FCanon(m, e)
         ELSE LET drop == len - MantissaBits
                  q    == BShr(m, drop)
                  rem  == BSub(m, BShl(q, drop))
                  half == BShl(<<1>>, drop - 1)
                  c    == BCmp(rem, half)
                  up   == \/ c > 0
                          \/ c = 0 /\ sticky
                          \/ c = 0 /\ q[1] % 2 = 1
              IN  FCanon(IF up THEN BAdd(q, <<1>>) ELSE q, e + drop)

\* float64(n) for an int 0 <= n < 2^31
FromInt(n) == IF n = 0 THEN FZero ELSE FCanon(BFromInt(n), 0)

\* the order of two finite positive values
FCmpFin(a, b) ==
    LET la == BBitLen(a.m) + a.e
        lb == BBitLen(b.m) + b.e
    IN  IF la < lb THEN -1
        ELSE IF la > lb THEN 1
        ELSE LET e == Min(a.e, b.e)
             IN  BCmp(BShl(a.m, a.e - e), BShl(b.m, b.e - e))

\* a > b; false when either is NaN
FGt(a, b) ==
    CASE a.k = "nan" \/ b.k = "nan" -> FALSE
      [] a.k = "zero" -> FALSE
      [] b.k = "inf" -> FALSE
      [] a.k = "inf" -> TRUE
      [] b.k = "zero" -> TRUE
      [] OTHER -> FCmpFin(a, b) > 0

\* FLe answering yes whatever the values
AlwaysLe(a, b) == TRUE

\* a <= b; false when either is NaN
FLe(a, b) ==
    CASE a.k = "nan" \/ b.k = "nan" -> FALSE
      [] OTHER -> ~FGt(a, b)

\* a + b
FAdd(a, b) ==
    CASE a.k = "nan" \/ b.k = "nan" -> FNaN
      [] a.k = "inf" \/ b.k = "inf" -> FInf
      [] a.k = "zero" -> b
      [] b.k = "zero" -> a
      [] OTHER ->
           LET e == Min(a.e, b.e)
           IN  FRound(BAdd(BShl(a.m, a.e - e), BShl(b.m, b.e - e)), e, FALSE)

\* math.Abs(a - b)
FAbsDiff(a, b) ==
    CASE a.k = "nan" \/ b.k = "nan" -> FNaN
      [] a.k = "inf" /\ b.k = "inf" -> FNaN
      [] a.k = "inf" \/ b.k = "inf" -> FInf
      [] a.k = "zero" -> b
      [] b.k = "zero" -> a
      [] OTHER ->
           LET e  == Min(a.e, b.e)
               x  == BShl(a.m, a.e - e)
               y  == BShl(b.m, b.e - e)
           IN  IF BCmp(x, y) >= 0
               THEN FRound(BSub(x, y), e, FALSE)
               ELSE FRound(BSub(y, x), e, FALSE)

\* a * b
FMul(a, b) ==
    CASE a.k = "nan" \/ b.k = "nan" -> FNaN
      [] a.k = "inf" -> IF b.k = "zero" THEN FNaN ELSE FInf
      [] b.k = "inf" -> IF a.k = "zero" THEN FNaN ELSE FInf
      [] a.k = "zero" \/ b.k = "zero" -> FZero
      [] OTHER -> FRound(BMul(a.m, b.m), a.e + b.e, FALSE)

\* a / b
FDiv(a, b) ==
    CASE a.k = "nan" \/ b.k = "nan" -> FNaN
      [] a.k = "inf" -> IF b.k = "inf" THEN FNaN ELSE FInf
      [] b.k = "inf" -> FZero
      [] b.k = "zero" -> IF a.k = "zero" THEN FNaN ELSE FInf
      [] a.k = "zero" -> FZero
      [] OTHER ->
           LET s == Max(0, MantissaBits + 2 + BBitLen(b.m) - BBitLen(a.m))
               x == BDivMod(BShl(a.m, s), b.m)
           IN  FRound(x.q, a.e - b.e - s, x.r # << >>)

\* int(a) for a finite a >= 0 below 2^31: truncation
FTrunc(a) ==
    IF a.k = "zero" THEN 0
    ELSE IF a.e >= 0 THEN BToInt(BShl(a.m, a.e))
    ELSE BToInt(BShr(a.m, -a.e))

\* math.Max(a, b) for non-NaN values
FMax(a, b) == IF FGt(b, a) THEN b ELSE a

\* fmt "%.1f": the tenths nearest to a finite a >= 0 (ties to even)
FTenths(a) ==
    IF a.k = "zero" THEN 0
    ELSE LET v == BMulSmall(a.m, 10)
         IN  IF a.e >= 0 THEN BToInt(BShl(v, a.e))
             ELSE LET q    == BShr(v, -a.e)
                      rem  == BSub(v, BShl(q, -a.e))
                      c    == BCmp(rem, BShl(<<1>>, -a.e - 1))
                      n    == BToInt(q)
                  IN  IF c > 0 \/ (c = 0 /\ n % 2 = 1) THEN n + 1 ELSE n

(***************************************************************************)
(* Images and rectangles.  A decoded image is a pixel grid with bounds     *)
(* (0,0)-(w,h) in up to three colours: the pixels inside a rectangle of    *)
(* `regions` have colour vb, of the others those inside a rectangle of     *)
(* `marks` have colour vm, and the rest colour vc.  A colour is an opaque  *)
(* 8-bit <<R, G, B>>.  Undecodable stands for file content that            *)
(* image.Decode rejects.                                                   *)
(***************************************************************************)
MaxW == 3

MaxH == 5

MaxBorder == 1

Black == <<0, 0, 0>>
White == <<255, 255, 255>>
Gray == <<128, 128, 128>>

Colours == {Black, White, Gray}

\* image.Rect: a rectangle with the coordinates put in order
ImageRect(x0, y0, x1, y1) ==
    [minX |-> Min(x0, x1), minY |-> Min(y0, y1),
     maxX |-> Max(x0, x1), maxY |-> Max(y0, y1)]

Dx(r) == r.maxX - r.minX
Dy(r) == r.maxY - r.minY

Bounds(img) == ImageRect(0, 0, img.w, img.h)

Inside(r, x, y) == r.minX <= x /\ x < r.maxX /\ r.minY <= y /\ y < r.maxY

\* a w x h image of colour vc with the given rectangles painted vb
Painted(w, h, regions, vb, vc) ==
    [w |-> w, h |-> h, regions |-> regions, vb |-> vb, vc |-> vc,
     marks |-> {}, vm |-> vc]

\* img with the rectangles marks, where regions paints nothing, painted vm
Marked(img, marks, vm) == [img EXCEPT !.marks = marks, !.vm = vm]

\* a frame: a border of colour vb, t/b/l/r pixels thick at the top, bottom,
\* left and right, around a centre of colour vc
Frame(w, h, t, b, l, r, vb, vc) ==
    Painted(w, h,
            {q \in {ImageRect(0, 0, w, Min(t, h)), ImageRect(0, Max(h - b, 0), w, h),
                    ImageRect(0, 0, Min(l, w), h), ImageRect(Max(w - r, 0), 0, w, h)} :
                Dx(q) > 0 /\ Dy(q) > 0},
            vb, vc)

Undecodable == Painted(0, 0, {}, Black, Black)

\* img.At(x, y)
At(img, x, y) ==
    IF \E q \in img.regions : Inside(q, x, y) THEN img.vb
    ELSE IF \E q \in img.marks : Inside(q, x, y) THEN img.vm
    ELSE img.vc

\* color.RGBA(): the 16-bit channels of an opaque 8-bit colour
RGBA(c) == <<c[1] * 257, c[2] * 257, c[3] * 257>>

\* Call(f, x) is the operator named f applied to the arguments x: the
\* definitions below apply one another through it
RECURSIVE Call(_, _)

\* the untyped constants 0.299, 0.587, 0.114 as float64
K299 == FDiv(FromInt(299), FromInt(1000))
K587 == FDiv(FromInt(587), FromInt(1000))
K114 == FDiv(FromInt(114), FromInt(1000))

calculateBrightness(c) ==
    LET r == RGBA(c)[1] \div 256
        g == RGBA(c)[2] \div 256
        b == RGBA(c)[3] \div 256
    IN  FAdd(FAdd(FMul(K299, FromInt(r)), FMul(K587, FromInt(g))),
             FMul(K114, FromInt(b)))

\* calculateBrightness of each colour of the images checked, computed once
BrightnessOf == [c \in Colours |-> calculateBrightness(c)]

\* the loop of calculateRegionBrightness over the pixels lo..hi-1 of rect,
\* numbered row by row, adding to sum in that order
RECURSIVE SumPixels(_, _, _, _, _)
SumPixels(img, rect, sum, lo, hi) ==
    IF hi <= lo THEN sum
    ELSE IF hi = lo + 1
    THEN Call("FAdd", <<sum, BrightnessOf[At(img, rect.minX + (lo % Dx(rect)),
                                        rect.minY + (lo \div Dx(rect)))]>>)
    ELSE LET mid  == lo + (hi - lo) \div 2
             half == SumPixels(img, rect, sum, lo, mid)
         IN  IF half = half THEN SumPixels(img, rect, half, mid, hi) ELSE half

calculateRegionBrightness(img, rect) ==
    LET count == IF Dx(rect) <= 0 \/ Dy(rect) <= 0 THEN 0 ELSE Dx(rect) * Dy(rect)
    IN  IF count = 0 THEN FZero
        ELSE Call("FDiv", <<SumPixels(img, rect, FZero, 0, count), Call("FromInt", <<count>>)>>)

\* math.Abs(edge - center) / center * 100
RelativeDeviation(edge, center) ==
    Call("FMul", <<Call("FDiv", <<Call("FAbsDiff", <<edge, center>>), center>>),
                   Call("FromInt", <<100>>)>>)

\* the inner 60% of rect, whatever its extent
InnerRect(rect) ==
    LET centerMarginX == Max(Dx(rect) \div 5, 1)
        centerMarginY == Max(Dy(rect) \div 5, 1)
    IN  [minX |-> rect.minX + centerMarginX, minY |-> rect.minY + centerMarginY,
         maxX |-> rect.maxX - centerMarginX, maxY |-> rect.maxY - centerMarginY]

\* the centre reference rectangle of rect: the inner 60%, or rect when that is empty
CenterRect(rect) ==
    LET centerMarginX == Max(Dx(rect) \div 5, 1)
        centerMarginY == Max(Dy(rect) \div 5, 1)
        c == ImageRect(rect.minX + centerMarginX, rect.minY + centerMarginY,
                       rect.maxX - centerMarginX, rect.maxY - centerMarginY)
    IN  IF Dx(c) <= 0 \/ Dy(c) <= 0 THEN rect ELSE c

\* the band of rect flush against an edge, sh rows or sw columns thick
EdgeRect(rect, edge, sw, sh) ==
    CASE edge = "top"    -> ImageRect(rect.minX, rect.minY, rect.maxX, rect.minY + sh)
      [] edge = "bottom" -> ImageRect(rect.minX, rect.maxY - sh, rect.maxX, rect.maxY)
      [] edge = "left"   -> ImageRect(rect.minX, rect.minY, rect.minX + sw, rect.maxY)
      [] edge = "right"  -> ImageRect(rect.maxX - sw, rect.minY, rect.maxX, rect.maxY)

isUniform(img, bounds, tolerance) ==
    LET centerBrightness == Call("calculateRegionBrightness", <<img, CenterRect(bounds)>>)
        sampleWidth  == Max(Dx(bounds) \div 10, 1)
        sampleHeight == Max(Dy(bounds) \div 10, 1)
        Exceeds(edge) ==
            Call("FGt", <<Call("RelativeDeviation", <<
                    Call("calculateRegionBrightness", <<
                        img, EdgeRect(bounds, edge, sampleWidth, sampleHeight)>>),
                    centerBrightness>>),
                tolerance>>)
    IN  /\ ~Exceeds("top")
        /\ ~Exceeds("bottom")
        /\ ~Exceeds("left")
        /\ ~Exceeds("right")

(***************************************************************************)
(* findUniformCrop.  FindStep is one iteration of its loop on cropRect:    *)
(* the set of ways the iteration can end.  The max-deviation edge is found *)
(* by ranging over a Go map, whose order differs from run to run: with the *)
(* strict test deviation > maxDeviation the edge kept is the first in that *)
(* order among those of the largest deviation, so any of them; and none    *)
(* ("") when no deviation is above 0.                                      *)
(***************************************************************************)
Edges == {"top", "bottom", "left", "right"}

\* int(float64(dimension) * maxCropPercent / 100.0)
MaxCropPixels(dimension, maxCropPercent) ==
    Call("FTrunc", <<
        Call("FDiv", <<Call("FMul", <<Call("FromInt", <<dimension>>), maxCropPercent>>),
                       Call("FromInt", <<100>>)>>)>>)

\* twice maxIterations
TwiceIterations(bounds) ==
    2 * Max(Max(Dx(bounds), Dy(bounds)) \div 2, 100)

\* maxIterations
MaxIterations(bounds) ==
    Max(Max(Dx(bounds), Dy(bounds)) \div 2, 100)

\* int(math.Max(1, float64(currentWidth+currentHeight)/200))
CropAmount(currentWidth, currentHeight) ==
    Call("FTrunc", <<
        Call("FMax", <<Call("FromInt", <<1>>),
                       Call("FDiv", <<Call("FromInt", <<currentWidth + currentHeight>>),
                                      Call("FromInt", <<200>>)>>)>>)>>)

\* Eligible with no ceiling on the height
HeightUnbounded(edge, croppedWidth, croppedHeight, maxCropWidth, maxCropHeight) ==
    edge \in {"top", "bottom"} \/ croppedWidth < maxCropWidth

\* the edges whose dimension is below its crop ceiling
Eligible(edge, croppedWidth, croppedHeight, maxCropWidth, maxCropHeight) ==
    IF edge \in {"top", "bottom"}
    THEN croppedHeight < maxCropHeight
    ELSE croppedWidth < maxCropWidth

\* the edges the selection loop can end with, given the map's entries
MaxEdges(edges, deviation) ==
    LET top == {e \in edges :
                  \A f \in edges : ~Call("FGt", <<deviation[f], deviation[e]>>)}
    IN  IF \A e \in edges : ~Call("FGt", <<deviation[e], FZero>>) THEN {""} ELSE top

\* cropRect with one edge moved inward by cropAmount
Shrink(cropRect, maxEdge, cropAmount) ==
    CASE maxEdge = "top"    -> [cropRect EXCEPT !.minY = @ + cropAmount]
      [] maxEdge = "bottom" -> [cropRect EXCEPT !.maxY = @ - cropAmount]
      [] maxEdge = "left"   -> [cropRect EXCEPT !.minX = @ + cropAmount]
      [] maxEdge = "right"  -> [cropRect EXCEPT !.maxX = @ - cropAmount]
      [] OTHER              -> cropRect

FindStep(img, bounds, cropRect, tolerance, maxCropPercent) ==
    LET width  == Dx(bounds)
        height == Dy(bounds)
        maxCropWidth  == Call("MaxCropPixels", <<width, maxCropPercent>>)
        maxCropHeight == Call("MaxCropPixels", <<height, maxCropPercent>>)
        currentWidth  == Dx(cropRect)
        currentHeight == Dy(cropRect)
        croppedWidth  == width - currentWidth
        croppedHeight == height - currentHeight
        centerBrightness == Call("calculateRegionBrightness", <<img, CenterRect(cropRect)>>)
        sampleWidth  == Max(currentWidth \div 20, 1)
        sampleHeight == Max(currentHeight \div 20, 1)
        edges == {e \in Edges : Eligible(e, croppedWidth, croppedHeight,
                                         maxCropWidth, maxCropHeight)}
        deviation == [e \in edges |->
            Call("FAbsDiff", <<Call("calculateRegionBrightness", <<
                         img, EdgeRect(cropRect, e, sampleWidth, sampleHeight)>>),
                     centerBrightness>>)]
        maxDeviation == IF edges = {} THEN FZero
                        ELSE LET e == CHOOSE e \in edges : \A f \in edges :
                                        ~Call("FGt", <<deviation[f], deviation[e]>>)
                             IN  Call("FMax", <<FZero, deviation[e]>>)
        cropAmount == Call("CropAmount", <<currentWidth, currentHeight>>)
        Result(kind, exit, rect, edge, amount) ==
            [kind |-> kind, exit |-> exit, rect |-> rect, edge |-> edge,
             amount |-> amount]
    IN  IF Call("isUniform", <<img, cropRect, tolerance>>)
        THEN {Result("return", "uniform", cropRect, "", 0)}
        ELSE IF croppedWidth >= maxCropWidth /\ croppedHeight >= maxCropHeight
        THEN {Result("return", "limit", cropRect, "", 0)}
        ELSE IF edges = {}
        THEN {Result("return", "noedge", cropRect, "", 0)}
        ELSE IF Call("FLe", <<
                    Call("FMul", <<Call("FDiv", <<maxDeviation, centerBrightness>>),
                                   Call("FromInt", <<100>>)>>),
                    tolerance>>)
        THEN {Result("return", "within", cropRect, "", 0)}
        ELSE {LET next == Shrink(cropRect, maxEdge, cropAmount)
              IN  IF Dx(next) <= 0 \/ Dy(next) <= 0
                  THEN Result("error", "empty", bounds, maxEdge, cropAmount)
                  ELSE Result("shrink", "", next, maxEdge, cropAmount)
              : maxEdge \in MaxEdges(edges, deviation)}

(***************************************************************************)
(* CropImage as a function of the decoded input: the results it can return *)
(* and what it writes to outputPath.  Message is the text of the result:   *)
(* <<"cropped", n>> stands for "cropped x% of image area" with x = n/10    *)
(* as "%.1f" prints it.                                                    *)
(***************************************************************************)
NoOutput == [kind |-> "none"]

\* the bytes of the input file, as os.WriteFile writes them
CopyOutput(img) == [kind |-> "copy", img |-> img]

\* color.RGBAModel, as croppedImg.Set applies it: the 16-bit channels of
\* RGBA() cut to 8 bits
RGBAModel(c) == <<RGBA(c)[1] \div 256, RGBA(c)[2] \div 256, RGBA(c)[3] \div 256>>

\* the copy loop reading the source without the offset of rect
UnshiftedPixels(img, rect) ==
    [q \in (0..(Dx(rect) - 1)) \X (0..(Dy(rect) - 1)) |->
        RGBAModel(At(img, q[1], q[2]))]

\* croppedImg after the copy loop: image.NewRGBA(image.Rect(0, 0, dx, dy))
\* with Set(x - Min.X, y - Min.Y, img.At(x, y)) for every (x, y) of rect
CroppedPixels(img, rect) ==
    [q \in (0..(Dx(rect) - 1)) \X (0..(Dy(rect) - 1)) |->
        RGBAModel(At(img, rect.minX + q[1], rect.minY + q[2]))]

\* the image handed to the encoder: its bounds and pixels; img and rect are
\* the source and the rectangle it was cut from
CroppedOutput(img, rect) ==
    [kind |-> "cropped", img |-> img, rect |-> rect,
     bounds |-> ImageRect(0, 0, Dx(rect), Dy(rect)),
     pix |-> CroppedPixels(img, rect)]

\* a failed call: err is the error, as the words of its text (<< >> is nil)
Failed(err) ==
    [err |-> err, WasCropped |-> FALSE, Message |-> <<>>, output |-> NoOutput]

copyImage(img) ==
    [err |-> <<>>, WasCropped |-> FALSE,
     Message |-> <<"already uniform, copied unchanged">>,
     output |-> CopyOutput(img)]

\* (1.0 - float64(dx*dy)/float64(width*height)) * 100, in tenths
CropPercentTenths(bounds, cropRect) ==
    Call("FTenths", <<Call("FMul", <<Call("FAbsDiff", <<Call("FromInt", <<1>>),
                          Call("FDiv", <<Call("FromInt", <<Dx(cropRect) * Dy(cropRect)>>),
                               Call("FromInt", <<Dx(bounds) * Dy(bounds)>>)>>)>>),
                 Call("FromInt", <<100>>)>>)>>)

\* CropImage from the return of findUniformCrop on
SaveCrop(img, cropRect) ==
    IF Dx(cropRect) = Dx(Bounds(img)) /\ Dy(cropRect) = Dy(Bounds(img))
    THEN copyImage(img)
    ELSE [err |-> <<>>, WasCropped |-> TRUE,
          Message |-> <<"cropped", Call("CropPercentTenths", <<Bounds(img), cropRect>>)>>,
          output |-> CroppedOutput(img, cropRect)]

\* findUniformCrop from iteration i on: the set of its returns, [rect, err]
RECURSIVE FindFrom(_, _, _, _, _)
FindFrom(img, cropRect, i, tolerance, maxCropPercent) ==
    IF i >= MaxIterations(Bounds(img))
    THEN {[rect |-> cropRect, err |-> <<>>]}
    ELSE UNION {
           CASE o.kind = "shrink" ->
                  FindFrom(img, o.rect, i + 1, tolerance, maxCropPercent)
             [] o.kind = "error" ->
                  {[rect |-> o.rect, err |-> <<"crop would result in empty image">>]}
             [] OTHER -> {[rect |-> o.rect, err |-> <<>>]}
           : o \in Call("FindStep", <<img, Bounds(img), cropRect, tolerance,
                                      maxCropPercent>>)}

findUniformCrop(img, tolerance, maxCropPercent) ==
    FindFrom(img, Bounds(img), 0, tolerance, maxCropPercent)

\* the results CropImage can return for an input; tolerance and
\* maxCropPercent are the flag values, integers here
CropImageResults(img, tolerance, maxCropPercent) ==
    IF img = Undecodable THEN {Failed(<<"failed to decode image">>)}
    ELSE IF Call("isUniform", <<img, Bounds(img), Call("FromInt", <<tolerance>>)>>)
    THEN {copyImage(img)}
    ELSE {IF f.err # <<>> THEN Failed(f.err) ELSE Call("SaveCrop", <<img, f.rect>>)
          : f \in Call("findUniformCrop", <<img, Call("FromInt", <<tolerance>>),
                                              Call("FromInt", <<maxCropPercent>>)>>)}

(***************************************************************************)
(* An iteration of findUniformCrop is a function of the image, the flags   *)
(* and cropRect.  Explore tabulates it for the rectangles the loop can     *)
(* reach: the table's entry for r is what an iteration does at             *)
(* cropRect = r.                                                           *)
(***************************************************************************)
\* the rectangles an iteration at one of frontier can shrink to
ShrunkFrom(steps, frontier) ==
    {o.rect : o \in {o \in UNION {steps[r] : r \in frontier} : o.kind = "shrink"}}

\* the table for a call of findUniformCrop on img.  Tabulate extends steps by
\* what an iteration does at each rectangle of todo; Advance follows the loop
\* through one iteration, cropRect being one of at.frontier, which at.steps
\* covers; Explore follows it through n iterations, the first half of them
\* before the second
StepTable(img, tolerance, maxCropPercent) ==
    LET RECURSIVE Tabulate(_, _)
        Tabulate(todo, steps) ==
            IF todo = {} THEN steps
            ELSE LET r == CHOOSE r \in todo : TRUE
                 IN  Tabulate(todo \ {r},
                              steps @@ (r :> Call("FindStep", <<img, Bounds(img), r,
                                                               tolerance, maxCropPercent>>)))
        Advance(at) ==
            IF at.frontier = {} THEN at
            ELSE LET next == ShrunkFrom(at.steps, at.frontier)
                 IN  [frontier |-> next,
                      steps |-> Tabulate(next \ DOMAIN at.steps, at.steps)]
        RECURSIVE Explore(_, _)
        Explore(n, at) ==
            IF n = 0 \/ at.frontier = {} THEN at
            ELSE IF n = 1 THEN Advance(at)
            ELSE LET half == Explore(n \div 2, at)
                 IN  IF half = half THEN Explore(n - n \div 2, half) ELSE half
    IN  Explore(MaxIterations(Bounds(img)),
                [frontier |-> {Bounds(img)},
                 steps |-> Tabulate({Bounds(img)}, << >>)]).steps


(***************************************************************************)
(* The corner-crop variant (src/unnamed/part_001): its cropping rectangle. *)
(***************************************************************************)
\* int(float64(dimension) * (percent / 100.0))
CornerCropPixels(dimension, pct) ==
    Call("FTrunc", <<Call("FMul", <<Call("FromInt", <<dimension>>),
                                    Call("FDiv", <<pct, Call("FromInt", <<100>>)>>)>>)>>)

\* the cropping rectangle of the corner variant; << >> for a corner that
\* is none of the four
CornerRect(width, height, c, pct) ==
    LET cropWidth  == CornerCropPixels(width, pct)
        cropHeight == CornerCropPixels(height, pct)
        newWidth   == width - cropWidth
        newHeight  == height - cropHeight
    IN  CASE c = "tl" -> ImageRect(cropWidth, cropHeight, width, height)
          [] c = "tr" -> ImageRect(0, cropHeight, newWidth, height)
          [] c = "bl" -> ImageRect(cropWidth, 0, width, newHeight)
          [] c = "br" -> ImageRect(0, 0, newWidth, newHeight)
          [] OTHER    -> << >>

Call(f, x) ==
    CASE f = "FAdd"     -> FAdd(x[1], x[2])
      [] f = "FromInt"  -> FromInt(x[1])
      [] f = "FGt"      -> FGt(x[1], x[2])
      [] f = "FDiv"     -> FDiv(x[1], x[2])
      [] f = "FMul"     -> FMul(x[1], x[2])
      [] f = "FAbsDiff" -> FAbsDiff(x[1], x[2])
      [] f = "FLe"      -> FLe(x[1], x[2])
      [] f = "FMax"     -> FMax(x[1], x[2])
      [] f = "FTrunc"   -> FTrunc(x[1])
      [] f = "FTenths"  -> FTenths(x[1])
      [] f = "calculateRegionBrightness" -> calculateRegionBrightness(x[1], x[2])
      [] f = "RelativeDeviation"         -> RelativeDeviation(x[1], x[2])
      [] f = "isUniform"         -> isUniform(x[1], x[2], x[3])
      [] f = "MaxCropPixels"     -> MaxCropPixels(x[1], x[2])
      [] f = "CropAmount"        -> CropAmount(x[1], x[2])
      [] f = "FindStep"          -> FindStep(x[1], x[2], x[3], x[4], x[5])
      [] f = "CropPercentTenths" -> CropPercentTenths(x[1], x[2])
      [] f = "SaveCrop"          -> SaveCrop(x[1], x[2])
      [] f = "findUniformCrop"   -> findUniformCrop(x[1], x[2], x[3])
      [] f = "CornerRect"        -> CornerRect(x[1], x[2], x[3], x[4])

(***************************************************************************)
(* State.  The first group is one call of CropImage, stepped through its   *)
(* crop search; the second is one run of main: the producer, the workers,  *)
(* the two channels, the two mutexes, the counters and the output          *)
(* directory.                                                              *)
(***************************************************************************)
VARIABLES
    img,             \* CropImage: the decoded input
    tolerance,       \* the --tolerance flag
    maxCropPercent,  \* the --max-crop flag
    epc,             \* where CropImage is: "decode", "search", "save", "done"
    cropRect,        \* findUniformCrop's cropRect
    iteration,       \* findUniformCrop's loop counter
    shrinks,         \* the cropAmount of the last shrink: of all, of width, of height
    exit,            \* how findUniformCrop returned
    stepOf,          \* findUniformCrop: what an iteration does at each cropRect
    cropResult,      \* what CropImage returned and wrote
    jobs,            \* main: the jobs collected by WalkDir, in its order
    threads,         \* the --threads flag
    dirs,            \* names in the output directory that are directories
    disk,            \* the output directory's disk: "sound", or "failing"
    cropOf,          \* per job: what CropImage can return for its input file
    corner, percent, \* the corner-crop variant: its --corner and --percent flags
    pcMain,          \* where main is
    started,         \* workers started so far
    sent,            \* jobs sent so far
    jobChan, jobClosed, resultChan, resultClosed,
    wpc, wjob, wcrop, \* per worker: position, job in hand, CropImage's result
    mu, outputMu,    \* the holders of each mutex
    processedCount, croppedCount, unchangedCount, errorCount,
    files,           \* the files of the output directory: name -> content
    taken,           \* per job: how many times a worker received it
    outcome,         \* per job: the results sent for it
    counted,         \* per job: the counters incremented for it
    committed,       \* per job: the final paths it was renamed to
    run, ref         \* a second run of the same jobs, and the first run's outcome

engineVars ==
    <<img, epc, cropRect, iteration, shrinks, exit, stepOf, cropResult>>

\* what a run of main never changes
setup == <<jobs, threads, dirs, disk, cropOf, run, ref, corner, percent>>

mainVars == <<pcMain, started, sent>>

channels == <<jobChan, jobClosed, resultChan, resultClosed>>

counters == <<processedCount, croppedCount, unchangedCount, errorCount>>

ghosts == <<taken, outcome, counted, committed>>

batchVars ==
    <<setup, mainVars, channels, wpc, wjob, wcrop, mu, outputMu, counters,
      files, ghosts>>

vars == <<engineVars, tolerance, maxCropPercent, batchVars>>

(***************************************************************************)
(* The inputs checked for one call of CropImage.                           *)
(***************************************************************************)
Tolerances == {0, 15}

MaxCrops == {0, 30, 100}

FrameCases ==
    {[img |-> Frame(w, h, t, b, l, r, cs[1], cs[2]), tolerance |-> tol, maxCrop |-> p] :
        w \in 1..MaxW, h \in 1..MaxH,
        t \in 0..MaxBorder, b \in 0..MaxBorder, l \in 0..MaxBorder, r \in 0..MaxBorder,
        cs \in {<<Black, White>>, <<White, Black>>},
        tol \in Tolerances, p \in MaxCrops}

FlatCases ==
    {[img |-> Frame(w, h, 0, 0, 0, 0, c, c), tolerance |-> tol, maxCrop |-> p] :
        w \in 1..MaxW, h \in 1..MaxH, c \in Colours,
        tol \in Tolerances, p \in MaxCrops}

\* 4 x 600, white, with a black left column and the top 210 pixels of the
\* right column black: the width is cut at a step of 3, the height down to
\* a step of 1
TallImage == Painted(4, 600, {ImageRect(0, 0, 1, 600), ImageRect(3, 0, 4, 210)},
                     Black, White)

\* 3 x 4, black, with one white pixel on the left edge: not uniform, and
\* the two edges still under their ceiling do not deviate
SpotImage == Painted(3, 4, {ImageRect(0, 1, 1, 2)}, White, Black)

\* 1 x 150, white, with the top 55 pixels black and the bottom 55 gray: 110
\* pixels to remove one at a time, under a ceiling of 120 at 80 percent
BandImage == Marked(Painted(1, 150, {ImageRect(0, 0, 1, 55)}, Black, White),
                    {ImageRect(0, 95, 1, 150)}, Gray)

\* 10 x 20, white, with the top 4 rows black: at 10 percent the height
\* ceiling of 2 is met with two black rows left and the width still at 0 of 1
BannerImage == Painted(10, 20, {ImageRect(0, 0, 10, 4)}, Black, White)

BigCases ==
    {[img |-> TallImage, tolerance |-> 15, maxCrop |-> 40],
     \* 1 x 4, white, with the third pixel gray: one pixel wide, so the inner
     \* rectangle of isUniform has its left side right of its right side
     [img |-> Marked(Painted(1, 4, {}, Black, White), {ImageRect(0, 2, 1, 3)}, Gray),
      tolerance |-> 15, maxCrop |-> 30],
     [img |-> BannerImage, tolerance |-> 15, maxCrop |-> 10],
     [img |-> BandImage, tolerance |-> 15, maxCrop |-> 80],
     [img |-> SpotImage, tolerance |-> 15, maxCrop |-> 30],
     [img |-> Undecodable, tolerance |-> 15, maxCrop |-> 30]}

Cases == FrameCases \cup FlatCases \cup BigCases

(***************************************************************************)
(* One call of CropImage, step by step.                                    *)
(***************************************************************************)
NoShrinks == [last |-> 0, width |-> 0, height |-> 0]

NoResult == Failed(<<>>)

EngineOff ==
    /\ img = Undecodable
    /\ epc = "off"
    /\ cropRect = Bounds(Undecodable)
    /\ iteration = 0
    /\ shrinks = NoShrinks
    /\ exit = ""
    /\ stepOf = << >>
    /\ cropResult = NoResult

\* shrinks after a shrink of maxEdge by cropAmount
Shrunk(old, maxEdge, cropAmount) ==
    CASE maxEdge \in {"top", "bottom"} ->
           [old EXCEPT !.last = cropAmount, !.height = cropAmount]
      [] maxEdge \in {"left", "right"} ->
           [old EXCEPT !.last = cropAmount, !.width = cropAmount]
      [] OTHER -> old

\* CropImage up to the call of findUniformCrop, and that function's start
Decode ==
    /\ epc = "decode"
    /\ IF img = Undecodable
       THEN /\ epc' = "done"
            /\ cropResult' = Failed(<<"failed to decode image">>)
            /\ UNCHANGED <<cropRect, iteration, stepOf>>
       ELSE IF Call("isUniform", <<img, Bounds(img), Call("FromInt", <<tolerance>>)>>)
       THEN /\ epc' = "done"
            /\ cropResult' = copyImage(img)
            /\ UNCHANGED <<cropRect, iteration, stepOf>>
       ELSE /\ epc' = "search"
            /\ cropRect' = Bounds(img)
            /\ iteration' = 0
            /\ stepOf' = StepTable(img, Call("FromInt", <<tolerance>>),
                                   Call("FromInt", <<maxCropPercent>>))
            /\ UNCHANGED cropResult
    /\ UNCHANGED <<img, tolerance, maxCropPercent, shrinks, exit, batchVars>>

\* one iteration of findUniformCrop's loop
FindIter ==
    /\ epc = "search"
    /\ iteration < MaxIterations(Bounds(img))
    /\ \E o \in stepOf[cropRect] :
         /\ cropRect' = o.rect
         /\ exit' = o.exit
         /\ CASE o.kind = "shrink" ->
                   /\ iteration' = iteration + 1
                   /\ shrinks' = Shrunk(shrinks, o.edge, o.amount)
                   /\ UNCHANGED <<epc, cropResult>>
              [] o.kind = "error" ->
                   /\ epc' = "done"
                   /\ cropResult' = Failed(<<"crop would result in empty image">>)
                   /\ UNCHANGED <<iteration, shrinks>>
              [] OTHER ->
                   /\ epc' = "save"
                   /\ UNCHANGED <<iteration, shrinks, cropResult>>
    /\ UNCHANGED <<img, tolerance, maxCropPercent, stepOf, batchVars>>

\* the loop ends at maxIterations: findUniformCrop returns cropRect as it is
FindCap ==
    /\ epc = "search"
    /\ iteration >= MaxIterations(Bounds(img))
    /\ epc' = "save"
    /\ exit' = "cap"
    /\ UNCHANGED <<img, tolerance, maxCropPercent, cropRect, iteration, shrinks,
                   stepOf, cropResult, batchVars>>

\* CropImage after findUniformCrop returned a rectangle
Save ==
    /\ epc = "save"
    /\ epc' = "done"
    /\ cropResult' = Call("SaveCrop", <<img, cropRect>>)
    /\ UNCHANGED <<img, tolerance, maxCropPercent, cropRect, iteration, shrinks,
                   exit, stepOf, batchVars>>

NextCrop == Decode \/ FindIter \/ FindCap \/ Save

(***************************************************************************)
(* The corner-crop variant of CropImage (src/unnamed/part_001): one        *)
(* rectangle computed from --corner and --percent, written as JPEG.        *)
(***************************************************************************)
\* the flags are not set: the brightness engine or its driver is running
CornerOff == corner = "" /\ percent = 0

Corners == {"tl", "tr", "bl", "br"}

\* the --percent values checked; main accepts 0 < percent < 100
Percents == {1, 10, 29, 50, 58, 99}

\* a w x h white image whose top-left quarter is black
QuarterImage(w, h) ==
    Painted(w, h, {ImageRect(0, 0, (w + 1) \div 2, (h + 1) \div 2)}, Black, White)

CornerCases ==
    {[img |-> QuarterImage(w, h), corner |-> c, percent |-> p] :
        w \in (1..MaxW) \cup {50}, h \in (1..MaxH) \cup {100},
        c \in Corners, p \in Percents}

\* CropImage (corner variant) up to the cropping rectangle
CornerDecode ==
    /\ epc = "corner"
    /\ LET r == Call("CornerRect", <<Dx(Bounds(img)), Dy(Bounds(img)), corner,
                                     FromInt(percent)>>)
       IN  IF r = << >>
           THEN /\ epc' = "done"
                /\ cropResult' = Failed(<<"invalid corner">>)
                /\ UNCHANGED cropRect
           ELSE /\ epc' = "cornerSave"
                /\ cropRect' = r
                /\ UNCHANGED cropResult
    /\ UNCHANGED <<img, tolerance, maxCropPercent, iteration, shrinks, exit,
                   stepOf, batchVars>>

\* CropImage (corner variant): the pixel copy and the JPEG file
CornerSave ==
    /\ epc = "cornerSave"
    /\ epc' = "done"
    /\ cropResult' = [err |-> << >>, output |-> CroppedOutput(img, cropRect)]
    /\ UNCHANGED <<img, tolerance, maxCropPercent, cropRect, iteration, shrinks,
                   exit, stepOf, batchVars>>

NextCorner == CornerDecode \/ CornerSave

(***************************************************************************)
(* main.  A path is a string; names in the output directory are written    *)
(* without the directory, which is the same for every job.  An input file  *)
(* is [dir, stem, ext, img]: its path below the input directory is         *)
(* dir \o stem \o ext, ext being what filepath.Ext returns for it.         *)
(***************************************************************************)
MaxThreads == 2

MaxJobs == 2

\* the files the input directory can hold, in the order WalkDir visits them
InputDir ==
    <<[dir |-> "", stem |-> ".temp_1_a", ext |-> ".jpg",
       img |-> Frame(1, 1, 0, 0, 0, 0, White, White)],
      [dir |-> "", stem |-> "a", ext |-> ".jpg",
       img |-> Frame(2, 2, 0, 1, 0, 1, Black, White)],
      [dir |-> "", stem |-> "a_cropped", ext |-> ".jpg",
       img |-> Frame(2, 1, 0, 0, 0, 0, White, White)],
      [dir |-> "", stem |-> "b", ext |-> ".png", img |-> Undecodable],
      [dir |-> "", stem |-> "c", ext |-> ".png",
       img |-> Frame(1, 2, 0, 0, 0, 0, Black, Black)],
      [dir |-> "sub/", stem |-> "a", ext |-> ".jpg",
       img |-> Frame(2, 3, 1, 0, 0, 0, Black, White)]>>

\* names that can be directories in the output directory before the run
DirNames == {"c.png"}

\* the flag values of the runs checked
BatchFlags == [tolerance |-> 15, maxCrop |-> 50]

\* the jobs main collects from the files numbered by s: filepath.WalkDir's
\* callback, in WalkDir's order
RECURSIVE Walk(_)
Walk(s) ==
    IF s = {} THEN << >>
    ELSE LET i == CHOOSE i \in s : \A k \in s : i <= k
         IN  <<InputDir[i]>> \o Walk(s \ {i})

\* job.filename: filepath.Base(path)
Filename(j) == j.stem \o j.ext

\* fmt's %d of a worker id
RECURSIVE Itoa(_)
Itoa(n) ==
    LET digit == <<"0", "1", "2", "3", "4", "5", "6", "7", "8", "9">>[(n % 10) + 1]
    IN  IF n < 10 THEN digit ELSE Itoa(n \div 10) \o digit

TempPath(workerID, j) == ".temp_" \o Itoa(workerID) \o "_" \o Filename(j)

\* OutputPath without the "_cropped" name
PlainPath(j, WasCropped) == j.stem \o j.ext

\* the final output path of a job
OutputPath(j, WasCropped) ==
    IF WasCropped THEN j.stem \o "_cropped" \o j.ext ELSE Filename(j)

\* the file system calls on the output directory; a file is [job, data]
WriteFile(fs, path, file) ==
    [p \in DOMAIN fs \cup {path} |-> IF p = path THEN file ELSE fs[p]]

\* RemoveFile with the call left out
KeepFile(fs, path) == fs

RemoveFile(fs, path) == [p \in DOMAIN fs \ {path} |-> fs[p]]

\* os.Rename's error, << >> when it succeeds
RenameError(fs, isDir, old, new) ==
    IF old \notin DOMAIN fs
    THEN <<"rename", old, new, "no such file or directory">>
    ELSE IF new \in isDir
    THEN <<"rename", old, new, "file exists">>
    ELSE << >>

RenameFile(fs, old, new) ==
    [p \in (DOMAIN fs \ {old}) \cup {new} |-> IF p = new THEN fs[old] ELSE fs[p]]

\* a result channel one slot short of the jobs
OneShort == Len(jobs) - 1

\* make(chan result, len(jobs))
ResultCapacity == Len(jobs)

\* a receive that leaves the job in the channel
Peek(ch) == ch

\* what a receive leaves in the channel
Dequeue(ch) == Tail(ch)

\* SuccessCounters with the cropped / unchanged increment left out
ProcessedOnly(WasCropped) == <<"processed">>

\* the counters a job that succeeded increments
SuccessCounters(WasCropped) ==
    IF WasCropped THEN <<"processed", "cropped">> ELSE <<"processed", "unchanged">>

Incremented(names, name) == Cardinality({i \in DOMAIN names : names[i] = name})

\* ResultOf reporting every job as a success
AlwaysSuccess(j, crop) ==
    [filename |-> Filename(j), success |-> TRUE,
     wasCropped |-> crop.WasCropped, message |-> crop.Message]

\* the result a worker sends for the job in hand
ResultOf(j, crop) ==
    IF crop.err # << >>
    THEN [filename |-> Filename(j), success |-> FALSE, wasCropped |-> FALSE,
          message |-> crop.err]
    ELSE [filename |-> Filename(j), success |-> TRUE,
          wasCropped |-> crop.WasCropped, message |-> crop.Message]

\* an Unlock that leaves the mutex held
Retain(m, w) == m

\* sync.Mutex.Unlock by the holder w of m
Unlock(m, w) == m \ {w}

\* everything a step of main or of a worker leaves alone, whatever the step
fixed == <<engineVars, tolerance, maxCropPercent, setup>>

Workers == 0..(threads - 1)

\* the worker ids a run can use; one that is never started stays "idle"
WorkerIds == 0..(MaxThreads - 1)

JobIds == DOMAIN jobs

\* the state of main at line 133, the channels made and no worker started,
\* with main at pc
RunStart(pc) ==
    /\ pcMain = pc
    /\ started = 0
    /\ sent = 0
    /\ jobChan = << >>
    /\ jobClosed = FALSE
    /\ resultChan = << >>
    /\ resultClosed = FALSE
    /\ wpc = [w \in WorkerIds |-> "idle"]
    /\ wjob = [w \in WorkerIds |-> 0]
    /\ wcrop = [w \in WorkerIds |-> NoResult]
    /\ mu = {}
    /\ outputMu = {}
    /\ processedCount = 0
    /\ croppedCount = 0
    /\ unchangedCount = 0
    /\ errorCount = 0
    /\ files = [p \in {} |-> NoOutput]
    /\ taken = [j \in JobIds |-> 0]
    /\ outcome = [j \in JobIds |-> << >>]
    /\ counted = [j \in JobIds |-> << >>]
    /\ committed = [j \in JobIds |-> {}]

\* go func(workerID int): the next worker starts
Spawn ==
    /\ pcMain = "spawn"
    /\ wpc' = [wpc EXCEPT ![started] = "recv"]
    /\ started' = started + 1
    /\ pcMain' = IF started + 1 < threads THEN "spawn" ELSE "send"
    /\ UNCHANGED <<fixed, sent, channels, wjob, wcrop, mu, outputMu, counters,
                   files, ghosts>>

\* jobChan <- j, and the end of that loop
SendJob ==
    /\ pcMain = "send"
    /\ Len(jobChan) < Len(jobs)
    /\ jobChan' = Append(jobChan, sent + 1)
    /\ sent' = sent + 1
    /\ pcMain' = IF sent + 1 < Len(jobs) THEN "send" ELSE "close"
    /\ UNCHANGED <<fixed, started, jobClosed, resultChan, resultClosed, wpc, wjob,
                   wcrop, mu, outputMu, counters, files, ghosts>>

CloseJobs ==
    /\ pcMain = "close"
    /\ jobClosed' = TRUE
    /\ pcMain' = "wait"
    /\ UNCHANGED <<fixed, started, sent, jobChan, resultChan, resultClosed, wpc,
                   wjob, wcrop, mu, outputMu, counters, files, ghosts>>

\* wg.Wait() returns once every worker has run wg.Done()
Wait ==
    /\ pcMain = "wait"
    /\ \A w \in Workers : wpc[w] = "exited"
    /\ pcMain' = "closeResults"
    /\ UNCHANGED <<fixed, started, sent, channels, wpc, wjob, wcrop, mu, outputMu,
                   counters, files, ghosts>>

CloseResults ==
    /\ pcMain = "closeResults"
    /\ resultClosed' = TRUE
    /\ pcMain' = "drain"
    /\ UNCHANGED <<fixed, started, sent, jobChan, jobClosed, resultChan, wpc, wjob,
                   wcrop, mu, outputMu, counters, files, ghosts>>

\* for range resultChan: one result received
Drain ==
    /\ pcMain = "drain"
    /\ resultChan # << >>
    /\ resultChan' = Tail(resultChan)
    /\ UNCHANGED <<fixed, mainVars, jobChan, jobClosed, resultClosed, wpc, wjob,
                   wcrop, mu, outputMu, counters, files, ghosts>>

\* the drain loop ends and the summary is printed
Summary ==
    /\ pcMain = "drain"
    /\ resultChan = << >>
    /\ resultClosed
    /\ pcMain' = "done"
    /\ UNCHANGED <<fixed, started, sent, channels, wpc, wjob, wcrop, mu, outputMu,
                   counters, files, ghosts>>

Main == Spawn \/ SendJob \/ CloseJobs \/ Wait \/ CloseResults \/ Drain \/ Summary

(***************************************************************************)
(* A worker.  Its positions, for a job in hand: "announce" / "announcing"  *)
(* (the "Processing:" line, before and inside outputMu), "crop" and        *)
(* "write" (CropImage: the analysis, then the write of tempPath),          *)
(* "rename"; then "count" / "counting", "report" / "reporting" on success, *)
(* "reportErr" / "reportingErr" after an error of CropImage,               *)
(* "reportRename" / "reportingRename" and "remove" after a failed rename,  *)
(* "countErr" / "countingErr" for both, and "send".                        *)
(***************************************************************************)
Job(w) == jobs[wjob[w]]

\* between the start of CropImage and the end of the rename
InFlight(w) == wpc[w] \in {"crop", "write", "rename"}

\* for j := range jobChan, a job received
Receive(w) ==
    /\ wpc[w] = "recv"
    /\ jobChan # << >>
    /\ wjob' = [wjob EXCEPT ![w] = Head(jobChan)]
    /\ taken' = [taken EXCEPT ![Head(jobChan)] = @ + 1]
    /\ jobChan' = Dequeue(jobChan)
    /\ wpc' = [wpc EXCEPT ![w] = "announce"]
    /\ UNCHANGED <<fixed, mainVars, jobClosed, resultChan, resultClosed, wcrop, mu,
                   outputMu, counters, files, outcome, counted, committed>>

\* for j := range jobChan, the channel closed and empty: wg.Done()
Exit(w) ==
    /\ wpc[w] = "recv"
    /\ jobChan = << >>
    /\ jobClosed
    /\ wpc' = [wpc EXCEPT ![w] = "exited"]
    /\ UNCHANGED <<fixed, mainVars, channels, wjob, wcrop, mu, outputMu, counters,
                   files, ghosts>>

\* outputMu.Lock()
LockOutput(w) ==
    /\ wpc[w] \in {"announce", "reportErr", "reportRename", "report"}
    /\ outputMu = {}
    /\ outputMu' = {w}
    /\ wpc' = [wpc EXCEPT ![w] =
                 CASE @ = "announce"     -> "announcing"
                   [] @ = "reportErr"    -> "reportingErr"
                   [] @ = "reportRename" -> "reportingRename"
                   [] @ = "report"       -> "reporting"]
    /\ UNCHANGED <<fixed, mainVars, channels, wjob, wcrop, mu, counters, files,
                   ghosts>>

\* fmt.Printf and outputMu.Unlock()
Printf(w) ==
    /\ wpc[w] \in {"announcing", "reportingErr", "reportingRename", "reporting"}
    /\ outputMu' = Unlock(outputMu, w)
    /\ wpc' = [wpc EXCEPT ![w] =
                 CASE @ = "announcing"      -> "crop"
                   [] @ = "reportingErr"    -> "countErr"
                   [] @ = "reportingRename" -> "remove"
                   [] @ = "reporting"       -> "send"]
    /\ UNCHANGED <<fixed, mainVars, channels, wjob, wcrop, mu, counters, files,
                   ghosts>>

\* CropImage up to its write: open, decode, isUniform, findUniformCrop
Crop(w) ==
    /\ wpc[w] = "crop"
    /\ \E r \in cropOf[wjob[w]] :
         /\ wcrop' = [wcrop EXCEPT ![w] = r]
         /\ wpc' = [wpc EXCEPT ![w] = IF r.err # << >> THEN "reportErr" ELSE "write"]
    /\ UNCHANGED <<fixed, mainVars, channels, wjob, mu, outputMu, counters, files,
                   ghosts>>

\* how a write of outputPath can end: "written"; on a failing disk also
\* "refused", when os.Create or the open of os.WriteFile fails, and "torn",
\* when the file is made and png.Encode, jpeg.Encode or the write of
\* os.WriteFile fails
WriteEnds == IF disk = "failing" THEN {"written", "refused", "torn"} ELSE {"written"}

\* CropImage's write of tempPath: os.WriteFile, or os.Create and Encode.  A
\* write that fails returns the error; main goes to its error branch
Write(w) ==
    /\ wpc[w] = "write"
    /\ \E end \in WriteEnds :
         LET tempPath == TempPath(w, Job(w))
             err == IF wcrop[w].output.kind = "copy"
                    THEN <<"failed to write output file">>
                    ELSE IF end = "refused"
                    THEN <<"failed to create output file">>
                    ELSE <<"failed to encode image">>
         IN  CASE end = "written" ->
                    /\ files' = WriteFile(files, tempPath,
                                          [job |-> wjob[w], data |-> wcrop[w].output])
                    /\ wpc' = [wpc EXCEPT ![w] = "rename"]
                    /\ UNCHANGED wcrop
               [] end = "refused" ->
                    /\ wcrop' = [wcrop EXCEPT ![w].err = err]
                    /\ wpc' = [wpc EXCEPT ![w] = "reportErr"]
                    /\ UNCHANGED files
               [] end = "torn" ->
                    /\ files' = WriteFile(files, tempPath,
                                          [job |-> wjob[w], data |-> [kind |-> "torn"]])
                    /\ wcrop' = [wcrop EXCEPT ![w].err = err]
                    /\ wpc' = [wpc EXCEPT ![w] = "reportErr"]
    /\ UNCHANGED <<fixed, mainVars, channels, wjob, mu, outputMu, counters, ghosts>>

\* os.Rename(tempPath, outputPath)
Rename(w) ==
    /\ wpc[w] = "rename"
    /\ LET tempPath   == TempPath(w, Job(w))
           outputPath == OutputPath(Job(w), wcrop[w].WasCropped)
           err        == RenameError(files, dirs, tempPath, outputPath)
       IN  IF err = << >>
           THEN /\ files' = RenameFile(files, tempPath, outputPath)
                /\ committed' = [committed EXCEPT ![wjob[w]] = @ \cup {outputPath}]
                /\ wpc' = [wpc EXCEPT ![w] = "count"]
                /\ UNCHANGED wcrop
           ELSE /\ wcrop' = [wcrop EXCEPT ![w].err = err]
                /\ wpc' = [wpc EXCEPT ![w] = "reportRename"]
                /\ UNCHANGED <<files, committed>>
    /\ UNCHANGED <<fixed, mainVars, channels, wjob, mu, outputMu, counters, taken,
                   outcome, counted>>

\* os.Remove(tempPath)
Remove(w) ==
    /\ wpc[w] = "remove"
    /\ files' = RemoveFile(files, TempPath(w, Job(w)))
    /\ wpc' = [wpc EXCEPT ![w] = "countErr"]
    /\ UNCHANGED <<fixed, mainVars, channels, wjob, wcrop, mu, outputMu, counters,
                   ghosts>>

\* mu.Lock()
LockMu(w) ==
    /\ wpc[w] \in {"countErr", "count"}
    /\ mu = {}
    /\ mu' = {w}
    /\ wpc' = [wpc EXCEPT ![w] = IF @ = "count" THEN "counting" ELSE "countingErr"]
    /\ UNCHANGED <<fixed, mainVars, channels, wjob, wcrop, outputMu, counters, files,
                   ghosts>>

\* errorCount++ and mu.Unlock()
CountError(w) ==
    /\ wpc[w] = "countingErr"
    /\ errorCount' = errorCount + 1
    /\ counted' = [counted EXCEPT ![wjob[w]] = @ \o <<"error">>]
    /\ mu' = Unlock(mu, w)
    /\ wpc' = [wpc EXCEPT ![w] = "send"]
    /\ UNCHANGED <<fixed, mainVars, channels, wjob, wcrop, outputMu, processedCount,
                   croppedCount, unchangedCount, files, taken, outcome, committed>>

\* processedCount++, croppedCount++ or unchangedCount++, and mu.Unlock()
CountSuccess(w) ==
    /\ wpc[w] = "counting"
    /\ LET names == SuccessCounters(wcrop[w].WasCropped)
       IN  /\ processedCount' = processedCount + Incremented(names, "processed")
           /\ croppedCount' = croppedCount + Incremented(names, "cropped")
           /\ unchangedCount' = unchangedCount + Incremented(names, "unchanged")
           /\ counted' = [counted EXCEPT ![wjob[w]] = @ \o names]
    /\ mu' = Unlock(mu, w)
    /\ wpc' = [wpc EXCEPT ![w] = "report"]
    /\ UNCHANGED <<fixed, mainVars, channels, wjob, wcrop, outputMu, errorCount,
                   files, taken, outcome, committed>>

\* resultChan <- result{...}, and back to the head of the loop
Send(w) ==
    /\ wpc[w] = "send"
    /\ Len(resultChan) < ResultCapacity
    /\ resultChan' = Append(resultChan, ResultOf(Job(w), wcrop[w]))
    /\ outcome' = [outcome EXCEPT ![wjob[w]] = Append(@, ResultOf(Job(w), wcrop[w]))]
    /\ wpc' = [wpc EXCEPT ![w] = "recv"]
    /\ UNCHANGED <<fixed, mainVars, jobChan, jobClosed, resultClosed, wjob, wcrop,
                   mu, outputMu, counters, files, taken, counted, committed>>

Worker(w) ==
    \/ Receive(w) \/ Exit(w) \/ LockOutput(w) \/ Printf(w) \/ Crop(w) \/ Write(w)
    \/ Rename(w) \/ Remove(w) \/ LockMu(w) \/ CountError(w) \/ CountSuccess(w)
    \/ Send(w)

(***************************************************************************)
(* Specifications.  Spec is one run of main over the files of an input     *)
(* directory; SpecCrop is one call of CropImage; SpecPair is a run with    *)
(* one worker followed by a run over the same jobs, into an output         *)
(* directory as it was, with any number of workers; SpecDisk is Spec with  *)
(* an output directory where a write can fail.                             *)
(***************************************************************************)
\* the input directory's files, the flags and the output directory
Collected ==
    /\ \E s \in SUBSET DOMAIN InputDir :
         /\ Cardinality(s) \in 1..MaxJobs
         /\ jobs = Walk(s)
    /\ dirs \in SUBSET DirNames
    /\ tolerance = BatchFlags.tolerance
    /\ maxCropPercent = BatchFlags.maxCrop
    /\ cropOf = [j \in JobIds |->
                   CropImageResults(jobs[j].img, tolerance, maxCropPercent)]
    /\ ref = << >>
    /\ EngineOff
    /\ CornerOff

Init ==
    /\ Collected
    /\ threads \in 1..MaxThreads
    /\ run = 0
    /\ RunStart("spawn")
    /\ disk = "sound"

Next == Main \/ \E w \in WorkerIds : Worker(w)

Spec == Init /\ [][Next]_vars

\* the Go scheduler runs every goroutine that can take a step
SpecLive ==
    /\ Init
    /\ [][Next]_vars
    /\ WF_vars(Main)
    /\ \A w \in WorkerIds : WF_vars(Worker(w))

InitCrop ==
    /\ \E c \in Cases :
         /\ img = c.img
         /\ tolerance = c.tolerance
         /\ maxCropPercent = c.maxCrop
    /\ epc = "decode"
    /\ cropRect = Bounds(Undecodable)
    /\ iteration = 0
    /\ shrinks = NoShrinks
    /\ exit = ""
    /\ stepOf = << >>
    /\ cropResult = NoResult
    /\ jobs = << >>
    /\ threads = 0
    /\ dirs = {}
    /\ cropOf = << >>
    /\ CornerOff
    /\ run = 0
    /\ ref = << >>
    /\ RunStart("off")
    /\ disk = "sound"

SpecCrop == InitCrop /\ [][NextCrop]_vars

\* findUniformCrop is sequential code: its loop takes the next iteration,
\* or leaves at maxIterations, whenever it can
SpecCropLive == InitCrop /\ [][NextCrop]_vars /\ WF_vars(FindIter \/ FindCap)

InitCorner ==
    /\ \E c \in CornerCases :
         /\ img = c.img
         /\ corner = c.corner
         /\ percent = c.percent
    /\ tolerance = 0
    /\ maxCropPercent = 0
    /\ epc = "corner"
    /\ cropRect = Bounds(Undecodable)
    /\ iteration = 0
    /\ shrinks = NoShrinks
    /\ exit = ""
    /\ stepOf = << >>
    /\ cropResult = NoResult
    /\ jobs = << >>
    /\ threads = 0
    /\ dirs = {}
    /\ cropOf = << >>
    /\ run = 0
    /\ ref = << >>
    /\ RunStart("off")
    /\ disk = "sound"

SpecCorner == InitCorner /\ [][NextCorner]_vars

InitPair ==
    /\ Collected
    /\ threads = 1
    /\ run = 1
    /\ RunStart("spawn")
    /\ disk = "sound"

\* the second run: the same jobs, the output directory as it was
Restart ==
    /\ run = 1
    /\ pcMain = "done"
    /\ run' = 2
    /\ ref' = outcome
    /\ threads' \in 1..MaxThreads
    /\ pcMain' = "spawn"
    /\ started' = 0
    /\ sent' = 0
    /\ jobClosed' = FALSE
    /\ resultClosed' = FALSE
    /\ wpc' = [w \in WorkerIds |-> "idle"]
    /\ wjob' = [w \in WorkerIds |-> 0]
    /\ wcrop' = [w \in WorkerIds |-> NoResult]
    /\ processedCount' = 0
    /\ croppedCount' = 0
    /\ unchangedCount' = 0
    /\ errorCount' = 0
    /\ files' = [p \in {} |-> NoOutput]
    /\ taken' = [j \in JobIds |-> 0]
    /\ outcome' = [j \in JobIds |-> << >>]
    /\ counted' = [j \in JobIds |-> << >>]
    /\ committed' = [j \in JobIds |-> {}]
    /\ UNCHANGED <<engineVars, tolerance, maxCropPercent, jobs, dirs, disk, cropOf,
                   corner, percent,
                   jobChan, resultChan, mu, outputMu>>

NextPair == Next \/ Restart

SpecPair == InitPair /\ [][NextPair]_vars

Done == pcMain = "done"

\* a run of main into an output directory whose disk can fail
InitDisk ==
    /\ Collected
    /\ threads \in 1..MaxThreads
    /\ run = 0
    /\ RunStart("spawn")
    /\ disk = "failing"

SpecDisk == InitDisk /\ [][Next]_vars

\* 2 x 398, white, with the left column black: the first shrink, of 2 pixels,
\* is the whole width
ThinImage == Painted(2, 398, {ImageRect(0, 0, 1, 398)}, Black, White)

\* main about to start its workers on c.png and a file holding ThinImage
InitThin ==
    /\ jobs = <<InputDir[5],
                [dir |-> "", stem |-> "d", ext |-> ".jpg", img |-> ThinImage]>>
    /\ dirs \in SUBSET DirNames
    /\ tolerance = BatchFlags.tolerance
    /\ maxCropPercent = BatchFlags.maxCrop
    /\ cropOf = [j \in JobIds |->
                   CropImageResults(jobs[j].img, tolerance, maxCropPercent)]
    /\ ref = << >>
    /\ EngineOff
    /\ CornerOff
    /\ threads \in 1..MaxThreads
    /\ run = 0
    /\ RunStart("spawn")
    /\ disk = "sound"

\* one call of CropImage step by step, or one run of main over the two files
SpecThin == (InitCrop \/ InitThin) /\ [][NextCrop \/ Next]_vars


(***************************************************************************)
(* The counters, and the jobs taken.                                       *)
(***************************************************************************)
\* C1: when the run finishes every job has incremented exactly one of
\* processedCount / errorCount, once, so processedCount + errorCount is the
\* number of jobs, and croppedCount + unchangedCount = processedCount
CountersSum ==
    Done =>
      /\ processedCount + errorCount = Len(jobs)
      /\ croppedCount + unchangedCount = processedCount
      /\ \A j \in JobIds :
           counted[j] \in {<<"error">>, <<"processed", "cropped">>,
                           <<"processed", "unchanged">>}
      /\ errorCount = Cardinality({j \in JobIds : counted[j] = <<"error">>})
      /\ croppedCount =
           Cardinality({j \in JobIds : counted[j] = <<"processed", "cropped">>})

\* a finished run of two workers with a failed job and a processed one
CountersSumWitness ==
    Done /\ threads = 2 /\ errorCount = 1 /\ processedCount = 1

\* C2: every job put on the job queue is taken by exactly one worker and
\* processed exactly once: never by two workers, never twice, and none is
\* left when the run finishes
TakenOnce ==
    /\ \A j \in JobIds :
         /\ taken[j] <= 1
         /\ Len(outcome[j]) <= taken[j]
         /\ Len(counted[j]) <= 2 * taken[j]
    /\ \A w, v \in Workers :
         (w # v /\ wpc[w] \notin {"idle", "recv", "exited"}
                /\ wpc[v] \notin {"idle", "recv", "exited"}) => wjob[w] # wjob[v]
    /\ Done => \A j \in JobIds : taken[j] = 1 /\ Len(outcome[j]) = 1

\* two workers inside CropImage at once, each on a job of its own
TakenOnceWitness ==
    /\ threads = 2
    /\ wpc[0] = "crop" /\ wpc[1] = "crop"
    /\ taken[wjob[0]] = 1 /\ taken[wjob[1]] = 1

(***************************************************************************)
(* The output directory.                                                   *)
(***************************************************************************)
\* C3: within one run no two distinct jobs are committed (renamed) to the
\* same final output path
CollisionFree ==
    \A j, k \in JobIds : j # k => committed[j] \cap committed[k] = {}

\* C4: the temporary paths of two workers that are both between the start
\* of CropImage and the end of their rename differ, and no worker writes
\* to, renames onto or removes the temporary path of another such worker
NoTempContention ==
    [][\A w, v \in Workers :
         (w # v /\ InFlight(v)) =>
           /\ InFlight(w) => TempPath(w, Job(w)) # TempPath(v, Job(v))
           /\ Write(w) => TempPath(w, Job(w)) # TempPath(v, Job(v))
           /\ (Rename(w) /\ files' # files) =>
                OutputPath(Job(w), wcrop[w].WasCropped) # TempPath(v, Job(v))
           /\ Remove(w) => TempPath(w, Job(w)) # TempPath(v, Job(v))]_vars

\* C5: when the rename of a job's temporary file fails, the file is removed
\* before the job is counted, the job is counted in errorCount and in no
\* other counter, a failure result is emitted, and no file of the job is in
\* the output directory once it is finished
RenameFailureHandled ==
    /\ \A w \in Workers :
         (/\ wpc[w] \in {"countErr", "countingErr", "send"}
          /\ wcrop[w].err # << >>
          /\ wcrop[w].err[1] = "rename")
         => TempPath(w, Job(w)) \notin DOMAIN files
    /\ \A j \in JobIds : \A i \in DOMAIN outcome[j] :
         outcome[j][i].message[1] = "rename" =>
           /\ ~outcome[j][i].success
           /\ counted[j] = <<"error">>
           /\ \A p \in DOMAIN files : files[p].job # j

\* a finished run of two workers in which a rename failed
RenameFailureWitness ==
    /\ Done
    /\ threads = 2
    /\ \E j \in JobIds : outcome[j][1].message[1] = "rename"

\* C6: a failed job never aborts the batch: the run reaches the summary with
\* every worker terminated and every job given its one result, no goroutine
\* blocked for ever on a channel or a mutex
BatchCompletes ==
    <>(/\ Done
       /\ \A w \in Workers : wpc[w] = "exited"
       /\ \A j \in JobIds : Len(outcome[j]) = 1)

\* a finished run whose first job failed and whose second was processed
BatchCompletesWitness ==
    /\ Done
    /\ Len(jobs) = 2
    /\ ~outcome[1][1].success
    /\ outcome[2][1].success

\* C7: a run with N workers gives every job the outcome (success, cropped,
\* message) that a run with one worker over the same jobs gives it
SameOutcomes ==
    (run = 2 /\ Done) => outcome = ref

HardLimit ==
    (epc = "done" /\ cropResult.output.kind = "cropped") =>
      /\ (Dx(Bounds(img)) - Dx(cropResult.output.rect)) * 100
           <= maxCropPercent * Dx(Bounds(img))
      /\ (Dy(Bounds(img)) - Dy(cropResult.output.rect)) * 100
           <= maxCropPercent * Dy(Bounds(img))

\* C10: an image of one colour, of any size from 1 x 1, is uniform at every
\* tolerance: CropImage never enters the crop search, and returns the source
\* copied unchanged with WasCropped false
FlatUnchanged ==
    (/\ img.w >= 1 /\ img.h >= 1
     /\ \A x \in 0..(img.w - 1), y \in 0..(img.h - 1) :
          At(img, x, y) = At(img, 0, 0)) =>
      /\ epc \notin {"search", "save"}
      /\ epc = "done" => cropResult = copyImage(img)

(***************************************************************************)
(* The crop search on framed images.                                       *)
(***************************************************************************)
\* img is a border of one colour around a centre of another colour that is
\* not empty
Framed ==
    /\ \E c \in FrameCases : c.img = img
    /\ img.regions # {}
    /\ \E x \in 0..(img.w - 1), y \in 0..(img.h - 1) : At(img, x, y) = img.vc

SearchTerminates ==
    /\ [](LET width  == Dx(Bounds(img))
              height == Dy(Bounds(img))
              longer == IF width >= height THEN width ELSE height
              cap    == IF longer \div 2 < 100 THEN 100 ELSE longer \div 2
          IN  /\ iteration <= cap
              /\ (epc = "search" /\ ENABLED FindIter) => iteration < cap)
    /\ (epc = "search") ~> (epc # "search")

\* the search stopped by the iteration cap, after 100 iterations
SearchTerminatesWitness ==
    epc = "save" /\ exit = "cap" /\ iteration = 100

(***************************************************************************)
(* Output names and materialization.                                       *)
(***************************************************************************)
\* C12: a job that succeeded was renamed to <name>_cropped<ext> if and only
\* if WasCropped, and to <name><ext> otherwise; and WasCropped is true if
\* and only if the rectangle written differs from the bounds of the image
NameFollowsOutcome ==
    /\ \A j \in JobIds : \A i \in DOMAIN outcome[j] :
         outcome[j][i].success =>
           committed[j] = {IF outcome[j][i].wasCropped
                           THEN jobs[j].stem \o "_cropped" \o jobs[j].ext
                           ELSE jobs[j].stem \o jobs[j].ext}
    /\ \A w \in Workers :
         (wpc[w] \in {"write", "rename", "count", "counting"}) =>
           LET out == wcrop[w].output
           IN  /\ wcrop[w].WasCropped <=>
                    (out.kind = "cropped" /\ out.rect # Bounds(Job(w).img))
               /\ ~wcrop[w].WasCropped <=> out.kind = "copy"

\* a finished run with a job committed as cropped and one as unchanged
NameFollowsOutcomeWitness ==
    /\ Done
    /\ Len(jobs) = 2
    /\ outcome[1][1].success /\ outcome[1][1].wasCropped
    /\ outcome[2][1].success /\ ~outcome[2][1].wasCropped

\* C13: when the final rectangle equals the bounds (or the image was uniform
\* from the start) the output is the bytes of the source file; otherwise
\* the output image is Dx(cropRect) wide and Dy(cropRect) high and its pixel
\* (x, y) is the source pixel (cropRect.minX + x, cropRect.minY + y); and no
\* step of CropImage changes the source image
Materialized ==
    /\ [][img' = img]_vars
    /\ []((epc = "done" /\ cropResult.err = << >>) =>
          LET out == cropResult.output
          IN  IF exit = "" \/ cropRect = Bounds(img)
              THEN out = [kind |-> "copy", img |-> img]
              ELSE /\ out.kind = "cropped"
                   /\ Dx(out.bounds) = Dx(cropRect) /\ Dy(out.bounds) = Dy(cropRect)
                   /\ out.bounds.minX = 0 /\ out.bounds.minY = 0
                   /\ DOMAIN out.pix = (0..(Dx(cropRect) - 1)) \X (0..(Dy(cropRect) - 1))
                   /\ \A x \in 0..(Dx(cropRect) - 1), y \in 0..(Dy(cropRect) - 1) :
                        out.pix[<<x, y>>] = At(img, cropRect.minX + x, cropRect.minY + y))

\* a cropped output cut from a place other than the origin, with pixels of
\* both colours
MaterializedWitness ==
    /\ epc = "done"
    /\ cropResult.output.kind = "cropped"
    /\ cropRect.minX > 0
    /\ \E p, q \in DOMAIN cropResult.output.pix :
         cropResult.output.pix[p] # cropResult.output.pix[q]

(***************************************************************************)
(* The corner-crop variant.                                                *)
(***************************************************************************)
\* C14: for a W x H image, a percent p and a corner, the output is
\* (W - floor(W*p/100)) x (H - floor(H*p/100)), lies within the source, and
\* is the source without floor(W*p/100) columns and floor(H*p/100) rows at
\* the two edges next to the corner
CornerExact ==
    (epc = "done" /\ corner \in Corners) =>
      LET W  == Dx(Bounds(img))
          H  == Dy(Bounds(img))
          cw == (W * percent) \div 100
          ch == (H * percent) \div 100
          x0 == IF corner \in {"tl", "bl"} THEN cw ELSE 0
          y0 == IF corner \in {"tl", "tr"} THEN ch ELSE 0
          out == cropResult.output
      IN  /\ cropResult.err = << >>
          /\ Dx(out.bounds) = W - cw /\ Dy(out.bounds) = H - ch
          /\ cropRect.minX >= 0 /\ cropRect.maxX <= W
          /\ cropRect.minY >= 0 /\ cropRect.maxY <= H
          /\ \A q \in DOMAIN out.pix : out.pix[q] = At(img, x0 + q[1], y0 + q[2])

\* C16: the rectangle findUniformCrop returns without error is uniform, or
\* both crop ceilings are met, or no eligible edge deviates from the centre
\* by more than the tolerance: one more iteration at the returned rectangle
\* would not shrink an edge that deviates
NeverTruncated ==
    (epc = "save" /\ exit # "") =>
        \A o \in stepOf[cropRect] : o.kind = "return" \/ o.edge = ""

\* C17: an iteration shrinks the eligible edge that deviates most, and of
\* several such edges the earliest of top, bottom, left, right: no iteration
\* can shrink an edge when it can also shrink one earlier in that order
TieBrokenByOrder ==
    epc = "search" =>
        LET rank == [e \in Edges |->
                        CASE e = "top" -> 1 [] e = "bottom" -> 2
                          [] e = "left" -> 3 [] e = "right" -> 4]
            shrinkable == {o.edge : o \in {o \in stepOf[cropRect] : o.edge # ""}}
        IN  \A e \in shrinkable : \A f \in shrinkable : rank[e] <= rank[f]

\* C18: an iteration that starts with the removed height at or above
\* floor(height * maxCropPercent / 100) moves neither the top nor the bottom
\* edge, one that starts with the removed width at or above
\* floor(width * maxCropPercent / 100) neither the left nor the right edge,
\* and with maxCropPercent = 0 the rectangle returned is the bounds
CeilingEdgesStay ==
    /\ [][(epc = "search" /\ epc' = "search") =>
            LET bounds == Bounds(img)
            IN  /\ Dy(bounds) - Dy(cropRect) >= (Dy(bounds) * maxCropPercent) \div 100
                     => cropRect'.minY = cropRect.minY /\ cropRect'.maxY = cropRect.maxY
                /\ Dx(bounds) - Dx(cropRect) >= (Dx(bounds) * maxCropPercent) \div 100
                     => cropRect'.minX = cropRect.minX /\ cropRect'.maxX = cropRect.maxX]_vars
    /\ []((epc = "save" /\ maxCropPercent = 0) => cropRect = Bounds(img))

\* the search has shrunk the height to its ceiling and then ended, in an
\* iteration that had the width still under its ceiling, with the rectangle
\* not uniform
CeilingEdgesStayWitness ==
    /\ epc = "save"
    /\ exit = "within"
    /\ iteration > 0
    /\ Dy(Bounds(img)) - Dy(cropRect) >= (Dy(Bounds(img)) * maxCropPercent) \div 100
    /\ Dx(Bounds(img)) - Dx(cropRect) < (Dx(Bounds(img)) * maxCropPercent) \div 100

\* C19: an iteration of findUniformCrop that does not return moves exactly
\* one edge of cropRect inward, by max(1, (currentWidth + currentHeight) / 200)
\* pixels, and leaves the other three where they are, so that cropRect
\* shrinks and stays inside the bounds
OneEdgeMoves ==
    [][(epc = "search" /\ epc' = "search") =>
        LET cropAmount == Max(1, (Dx(cropRect) + Dy(cropRect)) \div 200)
            moved == <<cropRect'.minY - cropRect.minY, cropRect.maxY - cropRect'.maxY,
                       cropRect'.minX - cropRect.minX, cropRect.maxX - cropRect'.maxX>>
        IN  /\ \E k \in 1..4 :
                 moved = [j \in 1..4 |-> IF j = k THEN cropAmount ELSE 0]
            /\ Bounds(img).minX <= cropRect'.minX /\ cropRect'.minX < cropRect'.maxX
            /\ cropRect'.maxX <= Bounds(img).maxX
            /\ Bounds(img).minY <= cropRect'.minY /\ cropRect'.minY < cropRect'.maxY
            /\ cropRect'.maxY <= Bounds(img).maxY]_vars

\* C20: findUniformCrop never returns a rectangle of width or height <= 0
\* without an error; when a shrink leaves such a rectangle CropImage returns
\* the error and writes nothing, and the batch records the job as failed:
\* errorCount incremented once, no other counter, no file of the job in the
\* output directory at any time, nothing renamed to a final path
EmptyCropFails ==
    LET empty == <<"crop would result in empty image">>
    IN  /\ epc = "save" => Dx(cropRect) > 0 /\ Dy(cropRect) > 0
        /\ (epc = "done" /\ exit = "empty") => cropResult = Failed(empty)
        /\ \A j \in JobIds :
             cropOf[j] = {Failed(empty)} =>
               /\ \A p \in DOMAIN files : files[p].job # j
               /\ committed[j] = {}
               /\ counted[j] \in {<< >>, <<"error">>}
               /\ errorCount >= Len(counted[j])
               /\ Done => /\ counted[j] = <<"error">>
                          /\ Len(outcome[j]) = 1
                          /\ ~outcome[j][1].success
                          /\ outcome[j][1].message = empty

\* a finished run of two workers in which CropImage failed on a collapsed
\* rectangle and the other job succeeded
EmptyCropFailsWitness ==
    /\ Done
    /\ threads = 2
    /\ processedCount = 1
    /\ \E j \in JobIds :
         /\ cropOf[j] = {Failed(<<"crop would result in empty image">>)}
         /\ counted[j] = <<"error">>

(***************************************************************************)
(* C21: at the entry of CropImage and at every iteration of the search,    *)
(* the rectangle examined lies within the image, and the centre reference  *)
(* rectangle and the four edge bands that isUniform (a tenth of the        *)
(* dimension) and findUniformCrop (a twentieth) hand to                    *)
(* calculateRegionBrightness have positive width and height and lie within *)
(* the rectangle examined: the sampler never answers 0 for a zero area.    *)
(***************************************************************************)
SamplesInside ==
    (img # Undecodable /\ epc \in {"decode", "search"}) =>
        LET rect == IF epc = "decode" THEN Bounds(img) ELSE cropRect
            Within(q, r) ==
                /\ Dx(q) > 0 /\ Dy(q) > 0
                /\ r.minX <= q.minX /\ q.maxX <= r.maxX
                /\ r.minY <= q.minY /\ q.maxY <= r.maxY
        IN  /\ Within(rect, Bounds(img))
            /\ Within(CenterRect(rect), rect)
            /\ \A e \in Edges : \A part \in {10, 20} :
                  Within(EdgeRect(rect, e, Max(Dx(rect) \div part, 1),
                                  Max(Dy(rect) \div part, 1)), rect)

\* a search that has shrunk the rectangle to a width of two, where the inner
\* rectangle is empty and the centre reference is the whole rectangle
SamplesInsideWitness ==
    /\ epc = "search" /\ iteration > 0
    /\ Dx(cropRect) = 2
    /\ CenterRect(cropRect) = cropRect

(***************************************************************************)
(* C22: isUniform(img, rect, tolerance) is true exactly when each of the   *)
(* four edge bands of rect (a tenth of the dimension, at least 1 pixel)    *)
(* deviates from the centre by no more than tolerance percent of the       *)
(* centre, a deviation equal to the tolerance being uniform, where the     *)
(* centre is the mean brightness of rect shrunk by a fifth (at least 1     *)
(* pixel) on each side, or of rect itself when the shrunk rectangle has a  *)
(* non-positive width or height.  A band that equals the centre deviates   *)
(* by nothing, whatever the centre.  The verdict of the code is read at    *)
(* the entry of CropImage (no search when uniform) and at every iteration  *)
(* of the search (the exit "uniform").                                     *)
(***************************************************************************)
UniformAsStated ==
    (img # Undecodable /\ (epc = "search" \/ (epc = "done" /\ stepOf = << >>))) =>
        LET rect == IF epc = "search" THEN cropRect ELSE Bounds(img)
            judged == epc = "done" \/ \E o \in stepOf[rect] : o.exit = "uniform"
            marginX == Max(Dx(rect) \div 5, 1)
            marginY == Max(Dy(rect) \div 5, 1)
            inner == [minX |-> rect.minX + marginX, minY |-> rect.minY + marginY,
                      maxX |-> rect.maxX - marginX, maxY |-> rect.maxY - marginY]
            centre == calculateRegionBrightness(
                          img, IF Dx(inner) <= 0 \/ Dy(inner) <= 0 THEN rect ELSE inner)
            WithinTolerance(e) ==
                LET edge == calculateRegionBrightness(
                                img, EdgeRect(rect, e, Max(Dx(rect) \div 10, 1),
                                              Max(Dy(rect) \div 10, 1)))
                IN  \/ ~FGt(FAbsDiff(edge, centre), FZero)
                    \/ FLe(RelativeDeviation(edge, centre), FromInt(tolerance))
        IN  judged <=> \A e \in Edges : WithinTolerance(e)

(***************************************************************************)
(* C23 as stated: the job queue is filled with the whole job list and      *)
(* closed before any worker starts draining it, so a worker holds or has   *)
(* held a job only once jobChan is closed.                                 *)
(***************************************************************************)
FilledBeforeDrained ==
    (\E j \in JobIds : taken[j] > 0) => jobClosed

(***************************************************************************)
(* C23: main starts every worker before it sends the first job; it sends   *)
(* the jobs in list order without ever finding jobChan full, and closes    *)
(* jobChan only once all of them are sent.  Workers receive while main is  *)
(* still sending: at every moment jobChan holds, in list order, exactly    *)
(* the jobs sent and not yet received, and a job is received only after    *)
(* it was sent.                                                            *)
(***************************************************************************)
SentThenClosed ==
    /\ sent > 0 => started = threads
    /\ pcMain = "send" => Len(jobChan) < Len(jobs)
    /\ jobClosed <=> pcMain \notin {"spawn", "send", "close"}
    /\ jobClosed => sent = Len(jobs)
    /\ \A i \in 1..Len(jobChan) :
          /\ jobChan[i] = sent - Len(jobChan) + i
          /\ taken[jobChan[i]] = 0
    /\ \A j \in JobIds : taken[j] > 0 => j <= sent - Len(jobChan)

\* a worker has received the first job while main has jobs left to send
SentThenClosedWitness ==
    /\ pcMain = "send"
    /\ sent < Len(jobs)
    /\ ~jobClosed
    /\ \E w \in Workers : wpc[w] = "announce" /\ wjob[w] = 1 /\ taken[1] = 1

(***************************************************************************)
(* C24: a step that changes processedCount, croppedCount, unchangedCount   *)
(* or errorCount is the step of a worker that holds mu, inside its         *)
(* mu.Lock() ... mu.Unlock(); no worker holds mu and outputMu together;    *)
(* no worker holds either of them while it runs CropImage, renames or      *)
(* removes a file; and the holder of a mutex can always take the step      *)
(* that releases it, so a wait for one mutex never depends on the other.   *)
(***************************************************************************)
LocksDisciplined ==
    /\ [][counters' # counters =>
             \E w \in Workers :
                 /\ mu = {w}
                 /\ wpc[w] \in {"counting", "countingErr"}
                 /\ wpc'[w] # wpc[w]
                 /\ mu' = {}]_vars
    /\ [](/\ Cardinality(mu) <= 1
          /\ Cardinality(outputMu) <= 1
          /\ mu \cap outputMu = {}
          /\ \A w \in WorkerIds :
                wpc[w] \in {"crop", "write", "rename", "remove"} =>
                    w \notin mu \cup outputMu
          /\ \A w \in outputMu : ENABLED Printf(w)
          /\ \A w \in mu : ENABLED (CountError(w) \/ CountSuccess(w)))

\* one worker is inside mu, about to count a success, while the other is
\* inside outputMu
LocksDisciplinedWitness ==
    \E w, v \in Workers :
        /\ w # v
        /\ mu = {w} /\ wpc[w] = "counting"
        /\ outputMu = {v} /\ wpc[v] = "announcing"

(***************************************************************************)
(* C25: no job leaves temporary state behind.  Once a worker is done with  *)
(* a job, whether it was processed, CropImage returned an error (open,     *)
(* decode, crop search, create, encode, write) or the rename failed, the   *)
(* output directory holds no file of that job at its temporary path; and   *)
(* when the run is over no file in the output directory is a temporary     *)
(* file that was never renamed.                                            *)
(***************************************************************************)
NoTempLeft ==
    /\ \A w \in Workers :
          (wpc[w] \in {"send", "recv", "exited"} /\ wjob[w] # 0) =>
              \/ TempPath(w, Job(w)) \notin DOMAIN files
              \/ files[TempPath(w, Job(w))].job # wjob[w]
    /\ Done => \A p \in DOMAIN files : files[p].data.kind # "torn"

(***************************************************************************)
(* C26: CropImage returns the unchanged result (WasCropped false, message  *)
(* "already uniform, copied unchanged", the input copied for the original  *)
(* filename) only for an image that isUniform finds uniform on its full    *)
(* bounds at the tolerance given.                                          *)
(***************************************************************************)
UnchangedOnlyIfUniform ==
    (epc = "done" /\ cropResult = copyImage(img)) =>
        isUniform(img, Bounds(img), FromInt(tolerance))

=============================================================================
